---------------------------- MODULE Spec2Model ----------------------------
(***************************************************************************)
(* Shelfworthy: the post -> genre -> book -> saved-skeet pipeline          *)
(* (PostClassifier) and the book, genre and post endpoints, over the       *)
(* relational store declared in database.py.                               *)
(*                                                                         *)
(* The store is the SQLModel/SQLAlchemy schema of database.py on SQLite    *)
(* (the only engine the sources construct, test_database.py:8-10):         *)
(*   - a row id is INTEGER PRIMARY KEY, so a new row gets max(id)+1;       *)
(*   - NOT NULL, PRIMARY KEY and UNIQUE constraints reject an insert       *)
(*     (IntegrityError); FOREIGN KEY clauses are declared but not          *)
(*     enforced (SQLite's default, and the only way create_book's          *)
(*     post_id=0 row can be stored);                                       *)
(*   - select(...).first() without ORDER BY scans in id order;             *)
(*   - deleting a parent row makes the ORM blank out the foreign key of    *)
(*     the children of a relationship() that has no delete cascade.        *)
(*                                                                         *)
(* Every handler is written once, as a step function over a call frame,    *)
(* one step per SQL statement (a SELECT, or a write with its commit).      *)
(* Spec and SpecPipe run a handler to completion in one action; SpecConc   *)
(* interleaves the steps of two sessions.                                  *)
(***************************************************************************)
EXTENDS Integers, Sequences, FiniteSets, TLC

VARIABLES
    posts,             \* table post
    genres,            \* table genre
    books,             \* table book
    classified_posts,  \* table classifiedpost
    saved_skeets,      \* table savedskeet
    result,            \* what the last completed call returned or raised
    procs,             \* SpecConc: the call frame of each concurrent session
    raw_posts,         \* SpecPipe: the batch search_bsky_posts returned
    run,               \* SpecPipe: which run of classify_and_save_posts (1, 2)
    i,                 \* SpecPipe: index of the post the for loop is at
    stage,             \* SpecPipe: how far the loop body got for post i
    locals,            \* SpecPipe: predicted_genre, authors[0], book_titles[0]
    first_run,         \* SpecPipe: the store as the first run left it
    log,               \* SpecPipe: what happened to each post of the run
    calls              \* Spec, SpecConc: how many calls were started

tables == <<posts, genres, books, classified_posts, saved_skeets>>
pipe_vars == <<raw_posts, run, i, stage, locals, first_run, log>>
vars == <<tables, result, procs, pipe_vars, calls>>

----------------------------------------------------------------------------
(* Bounds of the model. *)

MaxPosts == 2
MaxGenres == 2
MaxBooks == 2
MaxSkeets == 2
MaxBatch == 2
MaxCalls == 3
MaxConcCalls == 2

----------------------------------------------------------------------------
(* Values. *)

\* SQL NULL / Python None in an integer column.
NULL == 0 - 1

\* Python None where a str is expected.  Strings are sequences of
\* one-character strings, so this one-element sequence is no string.
None == <<"None">>

\* Python truthiness of an Optional[str]: None and "" are falsy.
IsFalsy(s) == s = None \/ s = <<>>

Max(S) == CHOOSE x \in S : \A y \in S : y <= x

Ids(rows) == {r.id : r \in rows}

\* INTEGER PRIMARY KEY without AUTOINCREMENT: the next rowid is max + 1.
NextId(rows) == IF rows = {} THEN 1 ELSE Max(Ids(rows)) + 1

\* select(...).first(): the matching row with the least id, or NULL.
FirstId(rows) ==
    IF rows = {} THEN NULL
    ELSE CHOOSE x \in Ids(rows) : \A y \in Ids(rows) : x <= y

Row(rows, id) == CHOOSE r \in rows : r.id = id

DB == [posts |-> posts, genres |-> genres, books |-> books,
       classified_posts |-> classified_posts, saved_skeets |-> saved_skeets]

EmptyDB == [posts |-> {}, genres |-> {}, books |-> {},
            classified_posts |-> {}, saved_skeets |-> {}]

----------------------------------------------------------------------------
(* The store: queries and constrained writes (database.py).                *)
(* SavedSkeet.saved_at is written once at insert and read by nothing; the  *)
(* rows carry the other columns.                                           *)

\* A write answers [ok, db, id]: ok is FALSE when a constraint rejects it
\* (sqlalchemy.exc.IntegrityError), and then db is the store unchanged.
Done(d, id) == [ok |-> TRUE, db |-> d, id |-> id]
Rejected(d) == [ok |-> FALSE, db |-> d, id |-> NULL]

\* class Book: title: str, author: str, genre_id: int are NOT NULL columns.
BookNotNull(title, author, genre_id) ==
    title # None /\ author # None /\ genre_id # NULL

\* Mutant: the table has no unique constraint.
UniqueSavedSkeet_Absent(d, user_id, post_id) == TRUE

\* class SavedSkeet: UniqueConstraint("user_id", "post_id").
UniqueSavedSkeet(d, user_id, post_id) ==
    ~ \E s \in d.saved_skeets : s.user_id = user_id /\ s.post_id = post_id

\* class ClassifiedPost: (post_id, genre_id) is the primary key.
ClassifiedPostKeyFree(d, post_id, genre_id) ==
    [post_id |-> post_id, genre_id |-> genre_id] \notin d.classified_posts

InsertPost(d, p) ==
    LET id == NextId(d.posts)
    IN  Done([d EXCEPT !.posts = @ \cup
                 {[id |-> id, handle |-> p.handle,
                   display_name |-> p.display_name, text |-> p.text,
                   timestamp |-> p.timestamp, like_count |-> p.like_count,
                   uri |-> p.uri]}], id)

InsertGenre(d, name, description) ==
    LET id == NextId(d.genres)
    IN  Done([d EXCEPT !.genres = @ \cup
                 {[id |-> id, name |-> name, description |-> description]}], id)

InsertBook(d, title, author, genre_id) ==
    LET id == NextId(d.books)
    IN  IF BookNotNull(title, author, genre_id)
        THEN Done([d EXCEPT !.books = @ \cup
                      {[id |-> id, title |-> title, author |-> author,
                        genre_id |-> genre_id]}], id)
        ELSE Rejected(d)

InsertClassifiedPost(d, post_id, genre_id) ==
    IF ClassifiedPostKeyFree(d, post_id, genre_id)
    THEN Done([d EXCEPT !.classified_posts = @ \cup
                  {[post_id |-> post_id, genre_id |-> genre_id]}], NULL)
    ELSE Rejected(d)

InsertSavedSkeet(d, post_id, user_id, book_id) ==
    LET id == NextId(d.saved_skeets)
    IN  IF UniqueSavedSkeet(d, user_id, post_id)
        THEN Done([d EXCEPT !.saved_skeets = @ \cup
                      {[id |-> id, post_id |-> post_id, user_id |-> user_id,
                        book_id |-> book_id]}], id)
        ELSE Rejected(d)

\* Mutant: the lookup finds no post.
SelectPostByText_Never(d, text) == NULL

\* select(Post).where(Post.text == text).first()
SelectPostByText(d, text) == FirstId({p \in d.posts : p.text = text})

\* Mutant: the lookup finds no post.
SelectPostByUri_Never(d, uri) == NULL

\* select(PostModel).where(PostModel.uri == uri).first()
SelectPostByUri(d, uri) == FirstId({p \in d.posts : p.uri = uri})

\* Mutant: the lookup finds no genre.
SelectGenreByName_Never(d, name) == NULL

\* select(Genre).where(Genre.name == name).first()
SelectGenreByName(d, name) == FirstId({g \in d.genres : g.name = name})

\* Mutant: the lookup finds no entry.
SelectClassifiedPost_Never(d, post_id, genre_id) == FALSE

\* select(ClassifiedPost).where(post_id == ..., genre_id == ...).first(),
\* as "is there an existing_entry".
SelectClassifiedPost(d, post_id, genre_id) ==
    \E c \in d.classified_posts : c.post_id = post_id /\ c.genre_id = genre_id

\* Mutant: the lookup forgets the author.
SelectBook_TitleOnly(d, title, author) ==
    FirstId({b \in d.books : b.title = title})

\* select(Book).where(Book.title == title, Book.author == author).first();
\* author None compiles to "author IS NULL".
SelectBook(d, title, author) ==
    FirstId({b \in d.books : b.title = title /\ b.author = author})

\* Mutant: the lookup forgets the user.
SelectSavedSkeet_AnyUser(d, post_id, user_id) ==
    FirstId({s \in d.saved_skeets : s.post_id = post_id})

\* select(SavedSkeet).where(post_id == ..., user_id == ...).first()
SelectSavedSkeet(d, post_id, user_id) ==
    FirstId({s \in d.saved_skeets : s.post_id = post_id /\ s.user_id = user_id})

\* select(SavedSkeet).where(book_id == ..., user_id == ...).first()
SelectSavedSkeetOfBook(d, book_id, user_id) ==
    FirstId({s \in d.saved_skeets : s.book_id = book_id /\ s.user_id = user_id})

----------------------------------------------------------------------------
(* Call frames. *)

Frame(op, args) ==
    [op |-> op, pc |-> "start", a |-> args,
     post_id |-> NULL, genre_id |-> NULL, book_id |-> NULL, skeet_id |-> NULL,
     status |-> "running", ret |-> NULL]

Idle == Frame("idle", [none |-> NULL])

Goto(f, pc) == [f EXCEPT !.pc = pc]
Return(f, v) == [f EXCEPT !.pc = "done", !.status = "ok", !.ret = v]
Raise(f, e) == [f EXCEPT !.pc = "done", !.status = e]
St(d, f) == [db |-> d, f |-> f]

----------------------------------------------------------------------------
(* PostClassifier's persistence methods (post_classifier.py).  f.a.self    *)
(* holds the fields __init__ stored.                                       *)

\* save_genre_to_db(self, genre_name)
save_genre_to_db(d, f) ==
    CASE f.pc = "start" ->
            LET id == SelectPostByText(d, f.a.self.text)
            IN  St(d, [Goto(f, IF id = NULL THEN "add_post" ELSE "select_genre")
                         EXCEPT !.post_id = id])
      [] f.pc = "add_post" ->
            LET w == InsertPost(d, f.a.self)
            IN  St(w.db, [Goto(f, "select_genre") EXCEPT !.post_id = w.id])
      [] f.pc = "select_genre" ->
            LET id == SelectGenreByName(d, f.a.genre_name)
            IN  St(d, [Goto(f, IF id = NULL THEN "add_genre"
                                            ELSE "select_classified")
                         EXCEPT !.genre_id = id])
      [] f.pc = "add_genre" ->
            LET w == InsertGenre(d, f.a.genre_name, None)
            IN  St(w.db, [Goto(f, "select_classified") EXCEPT !.genre_id = w.id])
      [] f.pc = "select_classified" ->
            IF SelectClassifiedPost(d, f.post_id, f.genre_id)
            THEN St(d, Return(f, NULL))
            ELSE St(d, Goto(f, "add_classified"))
      [] f.pc = "add_classified" ->
            LET w == InsertClassifiedPost(d, f.post_id, f.genre_id)
            IN  St(w.db, IF w.ok THEN Return(f, NULL)
                                 ELSE Raise(f, "IntegrityError"))

\* save_book_to_db(self, book_title, author, genre_name) -> Book
save_book_to_db(d, f) ==
    CASE f.pc = "start" ->
            LET id == SelectGenreByName(d, f.a.genre_name)
            IN  St(d, [Goto(f, IF id = NULL THEN "add_genre" ELSE "check_title")
                         EXCEPT !.genre_id = id])
      [] f.pc = "add_genre" ->
            LET w == InsertGenre(d, f.a.genre_name, None)
            IN  St(w.db, [Goto(f, "check_title") EXCEPT !.genre_id = w.id])
      [] f.pc = "check_title" ->
            IF IsFalsy(f.a.book_title)
            THEN St(d, Raise(f, "ValueError"))
            ELSE LET id == SelectBook(d, f.a.book_title, f.a.author)
                 IN  St(d, IF id = NULL THEN Goto(f, "add_book")
                                        ELSE Return(f, id))
      [] f.pc = "add_book" ->
            LET w == InsertBook(d, f.a.book_title, f.a.author, f.genre_id)
            IN  St(w.db, IF w.ok THEN Return(f, w.id)
                                 ELSE Raise(f, "IntegrityError"))

\* Mutant: "if book:", which overwrites a book already set.
BackfillNeeded_Overwrite(book, saved_book_id) == book # NULL

\* "if book and saved_skeet.book_id is None": the found row is backfilled.
BackfillNeeded(book, saved_book_id) == book # NULL /\ saved_book_id = NULL

\* save_skeet_to_db(self, book=None); f.a.book is book.id, or NULL for None.
save_skeet_to_db(d, f) ==
    CASE f.pc = "start" ->
            LET id == SelectPostByText(d, f.a.self.text)
            IN  St(d, [Goto(f, IF id = NULL THEN "add_post" ELSE "select_skeet")
                         EXCEPT !.post_id = id])
      [] f.pc = "add_post" ->
            LET w == InsertPost(d, f.a.self)
            IN  St(w.db, [Goto(f, "select_skeet") EXCEPT !.post_id = w.id])
      [] f.pc = "select_skeet" ->
            LET id == SelectSavedSkeet(d, f.post_id, 1)
            IN  IF id = NULL
                THEN St(d, Goto(f, "add_skeet"))
                ELSE IF BackfillNeeded(f.a.book, Row(d.saved_skeets, id).book_id)
                     THEN St(d, [Goto(f, "update_skeet") EXCEPT !.skeet_id = id])
                     ELSE St(d, Return(f, NULL))
      [] f.pc = "update_skeet" ->
            \* UPDATE savedskeet SET book_id = ? WHERE id = ?
            IF f.skeet_id \in Ids(d.saved_skeets)
            THEN St([d EXCEPT !.saved_skeets =
                        {IF s.id = f.skeet_id
                         THEN [s EXCEPT !.book_id = f.a.book] ELSE s : s \in @}],
                    Return(f, NULL))
            ELSE St(d, Raise(f, "StaleDataError"))
      [] f.pc = "add_skeet" ->
            LET w == InsertSavedSkeet(d, f.post_id, 1, f.a.book)
            IN  St(w.db, IF w.ok THEN Return(f, NULL)
                                 ELSE Raise(f, "IntegrityError"))

----------------------------------------------------------------------------
(* The book endpoints (book.py). *)

\* POST /books/: create_book(book, db, user_id)
create_book(d, f) ==
    CASE f.pc = "start" ->
            LET id == SelectBook(d, f.a.title, f.a.author)
            IN  St(d, [Goto(f, IF id = NULL THEN "add_book" ELSE "saved_check")
                         EXCEPT !.book_id = id])
      [] f.pc = "saved_check" ->
            IF SelectSavedSkeetOfBook(d, f.book_id, f.a.user_id) # NULL
            THEN St(d, Return(f, f.book_id))
            ELSE St(d, Goto(f, "add_skeet"))
      [] f.pc = "add_book" ->
            LET w == InsertBook(d, f.a.title, f.a.author, 1)
            IN  St(w.db, IF w.ok
                         THEN [Goto(f, "add_skeet") EXCEPT !.book_id = w.id]
                         ELSE Raise(f, "IntegrityError"))
      [] f.pc = "add_skeet" ->
            LET w == InsertSavedSkeet(d, 0, f.a.user_id, f.book_id)
            IN  St(w.db, IF w.ok THEN Return(f, f.book_id)
                                 ELSE Raise(f, "IntegrityError"))

\* PUT /books/{book_id}: update_book(book_id, updated_book, db)
update_book(d, f) ==
    CASE f.pc = "start" ->
            IF f.a.book_id \in Ids(d.books)
            THEN St(d, Goto(f, "update"))
            ELSE St(d, Raise(f, "404"))
      [] f.pc = "update" ->
            IF f.a.book_id \notin Ids(d.books)
            THEN St(d, Raise(f, "StaleDataError"))
            ELSE IF ~ BookNotNull(f.a.title, f.a.author, f.a.genre_id)
            THEN St(d, Raise(f, "IntegrityError"))
            ELSE St([d EXCEPT !.books =
                        {IF b.id = f.a.book_id
                         THEN [b EXCEPT !.title = f.a.title,
                                        !.author = f.a.author,
                                        !.genre_id = f.a.genre_id]
                         ELSE b : b \in @}],
                    Return(f, f.a.book_id))

\* Mutant: the delete leaves the SavedSkeet rows of the Book as they are.
BlankOutBook_Skip(skeets, book_id) == skeets

\* Book.saved_skeets is a relationship() without a delete cascade: when the
\* Book is deleted the flush sets book_id of its SavedSkeet rows to NULL.
BlankOutBook(skeets, book_id) ==
    {IF s.book_id = book_id THEN [s EXCEPT !.book_id = NULL] ELSE s : s \in skeets}

\* DELETE /books/{book_id}: delete_book(book_id, db)
delete_book(d, f) ==
    CASE f.pc = "start" ->
            IF f.a.book_id \in Ids(d.books)
            THEN St(d, Goto(f, "delete"))
            ELSE St(d, Raise(f, "404"))
      [] f.pc = "delete" ->
            IF f.a.book_id \notin Ids(d.books)
            THEN St(d, Raise(f, "StaleDataError"))
            ELSE St([d EXCEPT
                       !.books = {b \in @ : b.id # f.a.book_id},
                       !.saved_skeets = BlankOutBook(@, f.a.book_id)],
                    Return(f, NULL))

----------------------------------------------------------------------------
(* The genre endpoints (genre.py). *)

\* POST /genres/: create_genre(genre, db)
create_genre(d, f) ==
    LET w == InsertGenre(d, f.a.name, f.a.description)
    IN  St(w.db, Return(f, w.id))

\* PUT /genres/{genre_id}: update_genre(genre_id, updated_genre, db)
update_genre(d, f) ==
    CASE f.pc = "start" ->
            IF f.a.genre_id \in Ids(d.genres)
            THEN St(d, Goto(f, "update"))
            ELSE St(d, Raise(f, "404"))
      [] f.pc = "update" ->
            IF f.a.genre_id \notin Ids(d.genres)
            THEN St(d, Raise(f, "StaleDataError"))
            ELSE St([d EXCEPT !.genres =
                        {IF g.id = f.a.genre_id
                         THEN [g EXCEPT !.name = f.a.name,
                                        !.description = f.a.description]
                         ELSE g : g \in @}],
                    Return(f, f.a.genre_id))

\* Mutant: the delete goes through whatever references the genre.
GenreHasClassifiedPosts_Never(d, genre_id) == FALSE

\* Genre.classified_posts is a relationship() without a delete cascade and
\* ClassifiedPost.genre_id is part of the primary key: the flush of the
\* delete cannot blank it out and fails ("Dependency rule tried to blank-out
\* primary key column") when the genre has classified posts.
GenreHasClassifiedPosts(d, genre_id) ==
    \E c \in d.classified_posts : c.genre_id = genre_id

\* DELETE /genres/{genre_id}: delete_genre(genre_id, db)
delete_genre(d, f) ==
    CASE f.pc = "start" ->
            IF f.a.genre_id \in Ids(d.genres)
            THEN St(d, Goto(f, "delete"))
            ELSE St(d, Raise(f, "404"))
      [] f.pc = "delete" ->
            IF f.a.genre_id \notin Ids(d.genres)
            THEN St(d, Raise(f, "StaleDataError"))
            ELSE IF GenreHasClassifiedPosts(d, f.a.genre_id)
            THEN St(d, Raise(f, "AssertionError"))
            ELSE St([d EXCEPT !.genres = {g \in @ : g.id # f.a.genre_id}],
                    Return(f, NULL))

----------------------------------------------------------------------------
(* The post endpoints (post.py). *)

\* POST /posts/: create_post(post, db, user_id)
create_post(d, f) ==
    CASE f.pc = "start" ->
            LET id == SelectPostByUri(d, f.a.post.uri)
            IN  St(d, [Goto(f, IF id = NULL THEN "add_post" ELSE "select_skeet")
                         EXCEPT !.post_id = id])
      [] f.pc = "add_post" ->
            LET w == InsertPost(d, f.a.post)
            IN  St(w.db, [Goto(f, "select_skeet") EXCEPT !.post_id = w.id])
      [] f.pc = "select_skeet" ->
            IF SelectSavedSkeet(d, f.post_id, f.a.user_id) # NULL
            THEN St(d, Return(f, f.post_id))
            ELSE St(d, Goto(f, "add_skeet"))
      [] f.pc = "add_skeet" ->
            LET w == InsertSavedSkeet(d, f.post_id, f.a.user_id, NULL)
            IN  St(w.db, IF w.ok THEN Return(f, f.post_id)
                                 ELSE Raise(f, "IntegrityError"))

\* DELETE /posts/{post_id}: unsave_post(post_id, db, user_id)
unsave_post(d, f) ==
    CASE f.pc = "start" ->
            LET id == SelectSavedSkeet(d, f.a.post_id, f.a.user_id)
            IN  IF id = NULL
                THEN St(d, Raise(f, "404"))
                ELSE St(d, [Goto(f, "delete") EXCEPT !.skeet_id = id])
      [] f.pc = "delete" ->
            IF f.skeet_id \notin Ids(d.saved_skeets)
            THEN St(d, Raise(f, "StaleDataError"))
            ELSE St([d EXCEPT !.saved_skeets = {s \in @ : s.id # f.skeet_id}],
                    Return(f, NULL))

----------------------------------------------------------------------------
(* Running a handler. *)

\* One step of the call in frame f against store d.
Step(d, f) ==
    CASE f.op = "save_genre_to_db" -> save_genre_to_db(d, f)
      [] f.op = "save_book_to_db"  -> save_book_to_db(d, f)
      [] f.op = "save_skeet_to_db" -> save_skeet_to_db(d, f)
      [] f.op = "create_book"      -> create_book(d, f)
      [] f.op = "update_book"      -> update_book(d, f)
      [] f.op = "delete_book"      -> delete_book(d, f)
      [] f.op = "create_genre"     -> create_genre(d, f)
      [] f.op = "update_genre"     -> update_genre(d, f)
      [] f.op = "delete_genre"     -> delete_genre(d, f)
      [] f.op = "create_post"      -> create_post(d, f)
      [] f.op = "unsave_post"      -> unsave_post(d, f)

\* The whole call, run alone: its steps to the return or the raise.
RECURSIVE RunToEnd(_)
RunToEnd(s) == IF s.f.pc = "done" THEN s ELSE RunToEnd(Step(s.db, s.f))

Call(d, op, args) == RunToEnd(St(d, Frame(op, args)))

----------------------------------------------------------------------------
(* Python str methods on sequences of characters, as extract_entities     *)
(* uses them.                                                              *)

LowerLetters ==
    <<"a", "b", "c", "d", "e", "f", "g", "h", "i", "j", "k", "l", "m",
      "n", "o", "p", "q", "r", "s", "t", "u", "v", "w", "x", "y", "z">>
UpperLetters ==
    <<"A", "B", "C", "D", "E", "F", "G", "H", "I", "J", "K", "L", "M",
      "N", "O", "P", "Q", "R", "S", "T", "U", "V", "W", "X", "Y", "Z">>

IsLowerChar(c) == \E k \in DOMAIN LowerLetters : LowerLetters[k] = c
IsUpperChar(c) == \E k \in DOMAIN UpperLetters : UpperLetters[k] = c
IsCased(c) == IsLowerChar(c) \/ IsUpperChar(c)
IsSpace(c) == c \in {" ", "\t", "\n"}

LowerChar(c) ==
    IF IsUpperChar(c)
    THEN LowerLetters[CHOOSE k \in DOMAIN UpperLetters : UpperLetters[k] = c]
    ELSE c
UpperChar(c) ==
    IF IsLowerChar(c)
    THEN UpperLetters[CHOOSE k \in DOMAIN LowerLetters : LowerLetters[k] = c]
    ELSE c

\* str.lower()
Lower(s) == [k \in DOMAIN s |-> LowerChar(s[k])]

\* str.title(): a cased character is upper-cased when it follows an uncased
\* one (or starts the string) and lower-cased when it follows a cased one.
Title(s) ==
    [k \in DOMAIN s |->
        IF k > 1 /\ IsCased(s[k - 1]) THEN LowerChar(s[k]) ELSE UpperChar(s[k])]

\* str.strip()
RECURSIVE LStrip(_)
LStrip(s) == IF s # <<>> /\ IsSpace(Head(s)) THEN LStrip(Tail(s)) ELSE s
RECURSIVE RStrip(_)
RStrip(s) ==
    IF s # <<>> /\ IsSpace(s[Len(s)]) THEN RStrip(SubSeq(s, 1, Len(s) - 1)) ELSE s
Strip(s) == RStrip(LStrip(s))

\* sub is a prefix of s
StartsWith(s, sub) == Len(sub) <= Len(s) /\ SubSeq(s, 1, Len(sub)) = sub

\* "sub in s"
RECURSIVE Contains(_, _)
Contains(s, sub) ==
    \/ StartsWith(s, sub)
    \/ s # <<>> /\ Contains(Tail(s), sub)

\* s.replace(old, ""), old not empty: every occurrence, left to right.
RECURSIVE Remove(_, _)
Remove(s, old) ==
    IF s = <<>> THEN <<>>
    ELSE IF StartsWith(s, old)
         THEN Remove(SubSeq(s, Len(old) + 1, Len(s)), old)
         ELSE <<Head(s)>> \o Remove(Tail(s), old)

\* s.split("/")[0]
RECURSIVE BeforeSlash(_)
BeforeSlash(s) ==
    IF s = <<>> \/ Head(s) = "/" THEN <<>>
    ELSE <<Head(s)>> \o BeforeSlash(Tail(s))

\* " ".join(s.split()): runs of whitespace become one space, none at the ends.
RECURSIVE Squeeze(_)
Squeeze(s) ==
    IF s = <<>> THEN <<>>
    ELSE IF IsSpace(Head(s))
         THEN IF LStrip(s) = <<>> THEN <<>> ELSE <<" ">> \o Squeeze(LStrip(s))
         ELSE <<Head(s)>> \o Squeeze(Tail(s))
JoinSplit(s) == Squeeze(LStrip(s))

\* The placeholder answers extract_entities rejects.
TitlePlaceholders ==
    { <<"b", "o", "o", "k", "s", "k", "y">>,
      <<"u", "n", "k", "n", "o", "w", "n">>,
      <<"n", "o", "n", "e">> }
\* Mutant: "anonymous" is not on the list.
AuthorPlaceholders_Short ==
    { <<"u", "n", "k", "n", "o", "w", "n">>,
      <<"n", "o", "n", "e">>,
      <<"a", "u", "t", "h", "o", "r">> }

AuthorPlaceholders ==
    { <<"u", "n", "k", "n", "o", "w", "n">>,
      <<"n", "o", "n", "e">>,
      <<"a", "u", "t", "h", "o", "r">>,
      <<"a", "n", "o", "n", "y", "m", "o", "u", "s">> }

\* extract_entities, lines 81-91: the book title from the two raw answers.
CleanTitle(author, book_title) ==
    IF book_title = <<>> \/ Lower(book_title) \in TitlePlaceholders
    THEN None
    ELSE LET stripped ==
                 IF author # <<>> /\ Contains(Lower(book_title), Lower(author))
                 THEN Strip(Remove(Lower(book_title), Lower(author)))
                 ELSE book_title
         IN  Title(Strip(BeforeSlash(stripped)))

\* extract_entities, lines 93-98: the author from its raw answer.
CleanAuthor(author) ==
    IF author = <<>> \/ Lower(author) \in AuthorPlaceholders
    THEN None
    ELSE Title(JoinSplit(author))

\* extract_entities' result for the two answers of the QA client.
Entities(author, book_title) ==
    [authors |-> <<CleanAuthor(author)>>,
     book_titles |-> <<CleanTitle(author, book_title)>>]

----------------------------------------------------------------------------
(* Inputs. *)

Dune == <<"D", "u", "n", "e">>
Emma == <<"E", "m", "m", "a">>
FrankHerbert == <<"F", "r", "a", "n", "k", " ", "H", "e", "r", "b", "e", "r", "t">>
JaneAusten == <<"J", "a", "n", "e", " ", "A", "u", "s", "t", "e", "n">>

Texts == {"I loved Dune by Frank Herbert!", "Emma again"}
Uris == {"at://1", "at://2"}

\* What PostClassifier.__init__ receives, and the body of POST /posts/.
PostInputs ==
    [text : Texts, uri : Uris, handle : {"h"}, display_name : {"H"},
     like_count : {5}, timestamp : {"2024-01-01T00:00:00"}]

\* Labels of candidate_labels the model's classifier answers with.
Labels == {"science fiction", "fantasy"}
Descriptions == {None}

Titles == {Dune, Emma}
Authors == {FrankHerbert, JaneAusten}

\* The system user of the pipeline and one more logged-in user.
Users == {1, 2}

\* Ids a request path or body may name.
IdInputs == 1 .. 2

Within(d) ==
    /\ Ids(d.posts) \subseteq 1 .. MaxPosts
    /\ Ids(d.genres) \subseteq 1 .. MaxGenres
    /\ Ids(d.books) \subseteq 1 .. MaxBooks
    /\ Ids(d.saved_skeets) \subseteq 1 .. MaxSkeets

----------------------------------------------------------------------------
(* Spec: the persistence methods and the endpoints, called one at a time   *)
(* in any order with any arguments.                                        *)

NoResult == [op |-> "none", status |-> "none", ret |-> NULL]

Init ==
    /\ posts = {} /\ genres = {} /\ books = {}
    /\ classified_posts = {} /\ saved_skeets = {}
    /\ result = NoResult
    /\ procs = <<>>
    /\ raw_posts = <<>> /\ run = 0 /\ i = 0 /\ stage = "idle"
    /\ locals = <<>> /\ first_run = EmptyDB /\ log = <<>>
    /\ calls = 0

Store(d) ==
    /\ posts' = d.posts
    /\ genres' = d.genres
    /\ books' = d.books
    /\ classified_posts' = d.classified_posts
    /\ saved_skeets' = d.saved_skeets

\* The call op(args) runs alone from the current store.
Do(op, args) ==
    \E r \in {Call(DB, op, args)} :
        /\ Within(r.db)
        /\ Store(r.db)
        /\ result' = [op |-> op, status |-> r.f.status, ret |-> r.f.ret]
        /\ UNCHANGED <<procs, pipe_vars>>

SaveGenreToDb ==
    \E p \in PostInputs, g \in Labels :
        Do("save_genre_to_db", [self |-> p, genre_name |-> g])

SaveBookCall(t, a, g) ==
    Do("save_book_to_db", [book_title |-> t, author |-> a, genre_name |-> g])

SaveBookToDb ==
    \E t \in Titles \cup {<<>>, None}, a \in Authors \cup {None}, g \in Labels :
        SaveBookCall(t, a, g)

\* The book passed is None or a Book row of the store (the pipeline passes
\* the Book save_book_to_db has just returned).
SaveSkeetCall(p, b) == Do("save_skeet_to_db", [self |-> p, book |-> b])

SaveSkeetToDb ==
    \E p \in PostInputs, b \in Ids(books) \cup {NULL} : SaveSkeetCall(p, b)

CreateBook ==
    \E t \in Titles, a \in Authors, u \in Users :
        Do("create_book", [title |-> t, author |-> a, user_id |-> u])

UpdateBook ==
    \E id \in IdInputs, t \in Titles, a \in Authors, g \in IdInputs :
        Do("update_book", [book_id |-> id, title |-> t, author |-> a,
                           genre_id |-> g])

DeleteBook ==
    \E id \in IdInputs : Do("delete_book", [book_id |-> id])

CreateGenre ==
    \E n \in Labels, ds \in Descriptions :
        Do("create_genre", [name |-> n, description |-> ds])

UpdateGenre ==
    \E id \in IdInputs, n \in Labels, ds \in Descriptions :
        Do("update_genre", [genre_id |-> id, name |-> n, description |-> ds])

DeleteGenre ==
    \E id \in IdInputs : Do("delete_genre", [genre_id |-> id])

CreatePost ==
    \E p \in PostInputs, u \in Users :
        Do("create_post", [post |-> p, user_id |-> u])

UnsavePost ==
    \E id \in IdInputs, u \in Users :
        Do("unsave_post", [post_id |-> id, user_id |-> u])

Call1 ==
    \/ SaveGenreToDb
    \/ SaveBookToDb
    \/ SaveSkeetToDb
    \/ CreateBook
    \/ UpdateBook
    \/ DeleteBook
    \/ CreateGenre
    \/ UpdateGenre
    \/ DeleteGenre
    \/ CreatePost
    \/ UnsavePost

Next == calls < MaxCalls /\ calls' = calls + 1 /\ Call1

Spec == Init /\ [][Next]_vars

----------------------------------------------------------------------------
(* SpecSave: the three persistence methods of PostClassifier, called one   *)
(* at a time in any order, on a store nothing else writes.                 *)

NextSave ==
    /\ calls < MaxCalls
    /\ calls' = calls + 1
    /\ \/ SaveGenreToDb
       \/ SaveBookToDb
       \/ SaveSkeetToDb

SpecSave == Init /\ [][NextSave]_vars

----------------------------------------------------------------------------
(* SpecPost: the two writing endpoints of post.py, called one at a time in *)
(* any order by the logged-in users.                                       *)

NextPost ==
    /\ calls < MaxCalls
    /\ calls' = calls + 1
    /\ \/ CreatePost
       \/ UnsavePost

SpecPost == Init /\ [][NextPost]_vars

----------------------------------------------------------------------------
(* SpecPipe: classify_and_save_posts, run twice over one fetched batch.    *)
(* A batch entry is a raw post of search_bsky_posts together with what the *)
(* zero-shot classifier and the QA client answer for it; the two runs get  *)
(* the same answers.                                                       *)

\* A call of an external capability that raises instead of answering.
ServiceError == <<"ExternalServiceError">>

RawFrankHerbert == <<"f", "r", "a", "n", "k", " ", "h", "e", "r", "b", "e", "r", "t">>
RawUnknown == <<"u", "n", "k", "n", "o", "w", "n">>
RawDune == <<"d", "u", "n", "e">>
RawEmma == <<"e", "m", "m", "a">>
RawBooksky == <<"B", "o", "o", "k", "s", "k", "y">>
RawSlashDune == <<"/", "d", "u", "n", "e">>

GoodTimestamp == "2024-01-01T00:00:00"
BadTimestamp == "yesterday"

\* Posts every call answers for.
GoodEntries ==
    [text : Texts, uri : {"at://1"}, handle : {"h"}, display_name : {"H"},
     like_count : {5}, timestamp : {GoodTimestamp},
     zero_shot : Labels,
     qa_author : {RawFrankHerbert, RawUnknown},
     qa_title : {RawDune, RawEmma, RawBooksky, RawSlashDune}]

\* Posts one call fails for: the timestamp does not parse, the classifier
\* raises, the author question raises, the title question raises.
BadEntries ==
    [text : Texts, uri : {"at://1"}, handle : {"h"}, display_name : {"H"},
     like_count : {5}, timestamp : {BadTimestamp},
     zero_shot : {"fantasy"}, qa_author : {RawUnknown}, qa_title : {RawDune}]
    \cup
    [text : Texts, uri : {"at://1"}, handle : {"h"}, display_name : {"H"},
     like_count : {5}, timestamp : {GoodTimestamp},
     zero_shot : {"ExternalServiceError"},
     qa_author : {RawUnknown}, qa_title : {RawDune}]
    \cup
    [text : Texts, uri : {"at://1"}, handle : {"h"}, display_name : {"H"},
     like_count : {5}, timestamp : {GoodTimestamp},
     zero_shot : {"fantasy"}, qa_author : {ServiceError}, qa_title : {RawDune}]
    \cup
    [text : Texts, uri : {"at://1"}, handle : {"h"}, display_name : {"H"},
     like_count : {5}, timestamp : {GoodTimestamp},
     zero_shot : {"fantasy"}, qa_author : {RawUnknown}, qa_title : {ServiceError}]

Entries == GoodEntries \cup BadEntries

Batches == UNION {[1 .. n -> Entries] : n \in 0 .. MaxBatch}

\* The fields PostClassifier.__init__ keeps (lines 211-218).
Self(e) ==
    [text |-> e.text, uri |-> e.uri, handle |-> e.handle,
     display_name |-> e.display_name, like_count |-> e.like_count,
     timestamp |-> e.timestamp]

Outcome(d, status) == [db |-> d, status |-> status]

\* Lines 211-221: the constructor call (datetime.fromisoformat raises
\* ValueError), classify_genre, save_genre_to_db.
ClassifyOutcome(d, e) ==
    IF e.timestamp # GoodTimestamp THEN Outcome(d, "ValueError")
    ELSE IF e.zero_shot = "ExternalServiceError"
    THEN Outcome(d, "ExternalServiceError")
    ELSE LET r == Call(d, "save_genre_to_db",
                       [self |-> Self(e), genre_name |-> e.zero_shot])
         IN  Outcome(r.db, r.f.status)

\* Mutant: a failed question is answered with "".
ExtractOutcome_Partial(e) == "ok"

\* Lines 224 and 78-79: extract_author, then extract_book_title.
ExtractOutcome(e) ==
    IF e.qa_author = ServiceError \/ e.qa_title = ServiceError
    THEN "ExternalServiceError"
    ELSE "ok"

\* Mutant: "if book_title is None".
BookLess_NoneOnly(book_title) == book_title = None

\* Line 229: "if not book_title".
BookLess(book_title) == IsFalsy(book_title)

\* Lines 228-234: the save of the one (author, book_title) pair.
PersistOutcome(d, e, genre, author, book_title) ==
    IF BookLess(book_title)
    THEN LET r == Call(d, "save_skeet_to_db", [self |-> Self(e), book |-> NULL])
         IN  Outcome(r.db, r.f.status)
    ELSE LET rb == Call(d, "save_book_to_db",
                        [book_title |-> book_title, author |-> author,
                         genre_name |-> genre])
         IN  IF rb.f.status # "ok" THEN Outcome(rb.db, rb.f.status)
             ELSE LET rs == Call(rb.db, "save_skeet_to_db",
                                 [self |-> Self(e), book |-> rb.f.ret])
                  IN  Outcome(rs.db, rs.f.status)

NoLocals == [predicted_genre |-> "", authors |-> <<None>>, book_titles |-> <<None>>]

StartRun(n) ==
    /\ run' = n
    /\ i' = 1
    /\ stage' = IF Len(raw_posts) = 0 THEN "returned" ELSE "fetched"
    /\ locals' = NoLocals
    /\ log' = [j \in 1 .. Len(raw_posts) |-> "fetched"]

InitPipe ==
    /\ posts = {} /\ genres = {} /\ books = {}
    /\ classified_posts = {} /\ saved_skeets = {}
    /\ result = NoResult
    /\ procs = <<>>
    /\ calls = 0
    /\ raw_posts \in Batches
    /\ run = 1
    /\ i = 1
    /\ stage = IF Len(raw_posts) = 0 THEN "returned" ELSE "fetched"
    /\ locals = NoLocals
    /\ first_run = EmptyDB
    /\ log = [j \in 1 .. Len(raw_posts) |-> "fetched"]

\* The loop body got to `to` for post i, or an exception left the loop.
Proceed(o, to) ==
    /\ Store(o.db)
    /\ IF o.status = "ok"
       THEN /\ stage' = to
            /\ log' = [log EXCEPT ![i] = to]
            /\ UNCHANGED result
       ELSE /\ stage' = "raised"
            /\ log' = [log EXCEPT ![i] = "error"]
            /\ result' = [op |-> "classify_and_save_posts",
                          status |-> o.status, ret |-> NULL]
    /\ UNCHANGED <<raw_posts, run, i, first_run, procs, calls>>

Classify ==
    /\ stage = "fetched"
    /\ \E o \in {ClassifyOutcome(DB, raw_posts[i])} :
          /\ Proceed(o, "classified")
          /\ locals' = [NoLocals EXCEPT !.predicted_genre =
                           IF o.status = "ok" THEN raw_posts[i].zero_shot ELSE ""]

Extract ==
    /\ stage = "classified"
    /\ Proceed(Outcome(DB, ExtractOutcome(raw_posts[i])), "extracted")
    /\ locals' =
          IF ExtractOutcome(raw_posts[i]) = "ok"
          THEN [locals EXCEPT
                  !.authors = Entities(raw_posts[i].qa_author,
                                       raw_posts[i].qa_title).authors,
                  !.book_titles = Entities(raw_posts[i].qa_author,
                                           raw_posts[i].qa_title).book_titles]
          ELSE locals

Persist ==
    /\ stage = "extracted"
    /\ \E o \in {PersistOutcome(DB, raw_posts[i], locals.predicted_genre,
                                locals.authors[1], locals.book_titles[1])} :
          Proceed(o, "persisted")
    /\ UNCHANGED locals

\* The for loop takes the next post, or the function returns.
Advance ==
    /\ stage = "persisted"
    /\ IF i < Len(raw_posts)
       THEN /\ i' = i + 1
            /\ stage' = "fetched"
            /\ UNCHANGED result
       ELSE /\ i' = i
            /\ stage' = "returned"
            /\ result' = [op |-> "classify_and_save_posts",
                          status |-> "ok", ret |-> NULL]
    /\ UNCHANGED <<tables, raw_posts, run, locals, first_run, log, procs, calls>>

\* classify_and_save_posts is called again over the same raw posts.
Rerun ==
    /\ run = 1
    /\ stage \in {"returned", "raised"}
    /\ first_run' = DB
    /\ StartRun(2)
    /\ UNCHANGED <<tables, result, raw_posts, procs, calls>>

NextPipe ==
    \/ Classify
    \/ Extract
    \/ Persist
    \/ Advance
    \/ Rerun

SpecPipe == InitPipe /\ [][NextPipe]_vars

----------------------------------------------------------------------------
(* SpecConc: two sessions on one store.  Each session runs one call at a   *)
(* time; a step of a call is one statement against the store (a SELECT, or *)
(* the INSERT/UPDATE its commit flushes), and steps of the two sessions    *)
(* interleave in any order.                                                *)

Sessions == 1 .. 2

Finished(f) == f.pc = "done"

InitConc ==
    /\ posts = {} /\ genres = {} /\ books = {}
    /\ classified_posts = {} /\ saved_skeets = {}
    /\ result = NoResult
    /\ procs = [p \in Sessions |-> Return(Idle, NULL)]
    /\ raw_posts = <<>> /\ run = 0 /\ i = 0 /\ stage = "idle"
    /\ locals = <<>> /\ first_run = EmptyDB /\ log = <<>>
    /\ calls = 0

\* Session p enters op(args).
Begin(p, op, args) ==
    /\ calls < MaxConcCalls
    /\ Finished(procs[p])
    /\ procs' = [procs EXCEPT ![p] = Frame(op, args)]
    /\ calls' = calls + 1
    /\ UNCHANGED <<tables, result, pipe_vars>>

BeginSaveSkeet ==
    \E p \in Sessions, x \in PostInputs, b \in Ids(books) \cup {NULL} :
        Begin(p, "save_skeet_to_db", [self |-> x, book |-> b])

BeginCreatePost ==
    \E p \in Sessions, x \in PostInputs, u \in Users :
        Begin(p, "create_post", [post |-> x, user_id |-> u])

BeginCreateBook ==
    \E p \in Sessions, t \in Titles, a \in Authors, u \in Users :
        Begin(p, "create_book", [title |-> t, author |-> a, user_id |-> u])

BeginSaveBook ==
    \E p \in Sessions, t \in Titles, a \in Authors, g \in Labels :
        Begin(p, "save_book_to_db",
              [book_title |-> t, author |-> a, genre_name |-> g])

\* Session p executes the next statement of its call.
StepSession ==
    \E p \in Sessions :
        /\ ~ Finished(procs[p])
        /\ \E s \in {Step(DB, procs[p])} :
              /\ Within(s.db)
              /\ Store(s.db)
              /\ procs' = [procs EXCEPT ![p] = s.f]
              /\ result' = IF Finished(s.f)
                           THEN [op |-> s.f.op, status |-> s.f.status,
                                 ret |-> s.f.ret]
                           ELSE result
        /\ UNCHANGED <<pipe_vars, calls>>

NextConc ==
    \/ BeginSaveSkeet
    \/ BeginCreatePost
    \/ BeginCreateBook
    \/ BeginSaveBook
    \/ StepSession

SpecConc == InitConc /\ [][NextConc]_vars

----------------------------------------------------------------------------
(* SpecClean: extract_entities applied to one pair of raw answers of the   *)
(* QA client.  locals holds the two answers and then the returned dict.   *)

RawAuthor == <<"a", "u", "t", "h", "o", "r">>
RawAnonymous == <<"A", "N", "O", "N", "Y", "M", "O", "U", "S">>
RawNone == <<"N", "o", "n", "e">>
RawFrankHerbertSpaced == <<"F", "r", "a", "n", "k", " ", " ", "H", "e", "r", "b", "e", "r", "t">>
RawJaneAusten == <<"j", "a", "n", "e", " ", "a", "u", "s", "t", "e", "n">>
RawDuneByFrankHerbert == <<"D", "u", "n", "e", " ", "b", "y", " ", "F", "r", "a", "n", "k", " ", "H", "e", "r", "b", "e", "r", "t">>
RawTheUnknownSoldier == <<"t", "h", "e", " ", "u", "n", "k", "n", "o", "w", "n", " ", "s", "o", "l", "d", "i", "e", "r">>
RawDuneSlashEmma == <<"d", "u", "n", "e", " ", "/", " ", "e", "m", "m", "a">>
RawUNKNOWN == <<"U", "N", "K", "N", "O", "W", "N">>

\* Answers of extract_author: result.get("answer", "") is always a str.
RawAuthors ==
    {<<>>, RawUnknown, RawAuthor, RawAnonymous, RawNone,
     RawFrankHerbert, RawFrankHerbertSpaced, RawJaneAusten}

\* Answers of extract_book_title.
RawTitles ==
    {<<>>, RawBooksky, RawUNKNOWN, RawNone, RawDune, RawEmma,
     RawDuneByFrankHerbert, RawTheUnknownSoldier, RawDuneSlashEmma,
     RawSlashDune}

InitClean ==
    /\ posts = {} /\ genres = {} /\ books = {}
    /\ classified_posts = {} /\ saved_skeets = {}
    /\ result = NoResult
    /\ procs = <<>>
    /\ raw_posts = <<>> /\ run = 0 /\ i = 0
    /\ first_run = EmptyDB /\ log = <<>>
    /\ calls = 0
    /\ stage = "answered"
    /\ \E a \in RawAuthors, t \in RawTitles :
          locals = [author |-> a, book_title |-> t]

\* extract_entities cleans the two answers and returns the dict.
ExtractEntities ==
    /\ stage = "answered"
    /\ stage' = "extracted"
    /\ locals' = [author |-> locals.author, book_title |-> locals.book_title,
                  authors |-> Entities(locals.author, locals.book_title).authors,
                  book_titles |->
                      Entities(locals.author, locals.book_title).book_titles]
    /\ result' = [op |-> "extract_entities", status |-> "ok", ret |-> NULL]
    /\ UNCHANGED <<tables, procs, raw_posts, run, i, first_run, log, calls>>

NextClean == ExtractEntities

SpecClean == InitClean /\ [][NextClean]_vars

----------------------------------------------------------------------------
(* Properties of the store under Spec. *)

\* C3: no two Book rows share the same (title, author) pair.
C3_BookTitleAuthorUnique ==
    \A b1 \in books, b2 \in books :
        (b1.title = b2.title /\ b1.author = b2.author) => b1.id = b2.id

\* C7: every Book row's genre_id is the id of an existing Genre row.
C7_BookGenreExists == \A b \in books : b.genre_id \in Ids(genres)

\* C8: every SavedSkeet row whose book_id is not null references an
\* existing Book row.
C8_SavedSkeetBookExists ==
    \A s \in saved_skeets : s.book_id # NULL => s.book_id \in Ids(books)

\* A book saved through create_book was deleted: its SavedSkeet row (the
\* post_id 0 row) is left with a null book_id, beside a row that still
\* references a Book.
C8_Witness ==
    /\ result.op = "delete_book" /\ result.status = "ok"
    /\ \E s \in saved_skeets : s.post_id = 0 /\ s.book_id = NULL
    /\ \E s \in saved_skeets : s.book_id \in Ids(books)

\* C9: every ClassifiedPost row's post_id is the id of an existing Post row
\* and its genre_id is the id of an existing Genre row.
C9_ClassifiedPostRefsExist ==
    \A c \in classified_posts :
        c.post_id \in Ids(posts) /\ c.genre_id \in Ids(genres)

\* delete_genre was called on a genre that has classified posts, and failed.
C9_Witness ==
    /\ result.op = "delete_genre" /\ result.status = "AssertionError"
    /\ classified_posts # {}

\* C5: from every reachable state, a save_skeet_to_db call leaves exactly
\* one SavedSkeet row for (user 1, the post with self's text); a row that
\* had a book keeps it whatever book the call supplies; a row that had
\* none, or a new row, gets the book the call supplies (null when it
\* supplies none); no other SavedSkeet row changes.
C5_SkeetAfter(p, b, r) ==
    LET pid == SelectPostByText(DB, p.text)
        old == IF pid = NULL THEN {}
               ELSE {s \in saved_skeets : s.user_id = 1 /\ s.post_id = pid}
        pid2 == SelectPostByText(r.db, p.text)
        new == {s \in r.db.saved_skeets : s.user_id = 1 /\ s.post_id = pid2}
    IN  /\ r.f.status = "ok"
        /\ pid2 # NULL
        /\ pid # NULL => pid2 = pid
        /\ Cardinality(new) = 1
        /\ \A n \in new :
              /\ \A o \in old : o.book_id # NULL => n.book_id = o.book_id
              /\ \A o \in old : o.book_id = NULL => n.book_id = b
              /\ old = {} => n.book_id = b
        /\ r.db.saved_skeets \ new = saved_skeets \ old

C5_BackfillWithoutOverwrite ==
    \A p \in PostInputs, b \in Ids(books) \cup {NULL} :
        C5_SkeetAfter(p, b, Call(DB, "save_skeet_to_db", [self |-> p, book |-> b]))

\* Three calls: a Book was saved, a call without a book created the row
\* of (user 1, post), and the last call, with the Book, backfilled it.
C5_Witness ==
    /\ calls = 3
    /\ result.op = "save_skeet_to_db" /\ result.status = "ok"
    /\ classified_posts = {}
    /\ \E b \in books, q \in posts :
          /\ books = {b} /\ posts = {q}
          /\ saved_skeets = {[id |-> 1, post_id |-> q.id, user_id |-> 1,
                              book_id |-> b.id]}

\* C10: from every reachable state, a save_book_to_db(title, author, genre)
\* call made when a Book with that title and author exists returns the id
\* of such a Book and changes no Book row (its genre_id stays as created); a
\* call made when none exists either raises or adds one Book with that
\* title and author and returns its id.
C10_BookAfter(t, a, r) ==
    LET old == {b \in books : b.title = t /\ b.author = a}
    IN  /\ old # {} =>
              /\ r.f.status = "ok"
              /\ r.f.ret \in Ids(old)
              /\ r.db.books = books
        /\ (old = {} /\ r.f.status = "ok") =>
              /\ r.f.ret \notin Ids(books)
              /\ \E b \in r.db.books :
                    /\ b.id = r.f.ret /\ b.title = t /\ b.author = a
                    /\ r.db.books = books \cup {b}
        /\ r.f.status # "ok" => r.db.books = books

C10_SaveBookLookupOrCreate ==
    \A t \in Titles, a \in Authors \cup {None}, g \in Labels :
        C10_BookAfter(t, a, Call(DB, "save_book_to_db",
                  [book_title |-> t, author |-> a, genre_name |-> g]))

\* Two calls, the second for the first's (title, author) under another
\* genre: the second created its genre and returned the one Book, which
\* keeps the first genre.
C10_Witness ==
    /\ calls = 2
    /\ result.op = "save_book_to_db" /\ result.status = "ok"
    /\ Cardinality(genres) = 2
    /\ \E b \in books : books = {b} /\ result.ret = b.id /\ b.genre_id = 1

\* What save_genre_to_db(genre_name = n) of a post p leaves of the
\* ClassifiedPost table, r being the finished call.
C15_ClassifiedAfter(p, n, r) ==
    LET key == [post_id |-> r.f.post_id, genre_id |-> r.f.genre_id]
    IN  /\ r.f.status = "ok"
        /\ \E q \in r.db.posts : q.id = key.post_id /\ q.text = p.text
        /\ \E g \in r.db.genres : g.id = key.genre_id /\ g.name = n
        /\ r.db.classified_posts = classified_posts \cup {key}
        /\ key \in classified_posts => r.db.classified_posts = classified_posts
        /\ Cardinality({c \in r.db.classified_posts :
                           c.post_id = key.post_id /\ c.genre_id = key.genre_id}) = 1

\* C15: save_genre_to_db inserts the ClassifiedPost row of the (post,
\* genre) pair when it is absent and leaves the table as it is when the
\* pair is present, so there is one row per pair; a post classified under
\* two genres has two rows.
C15_ClassifiedPostOncePerPair ==
    \A p \in PostInputs, n \in Labels :
        C15_ClassifiedAfter(p, n,
            Call(DB, "save_genre_to_db", [self |-> p, genre_name |-> n]))

\* One post was classified under two genres in two calls.
C15_Witness ==
    /\ calls = 2
    /\ result.op = "save_genre_to_db" /\ result.status = "ok"
    /\ Cardinality(posts) = 1 /\ Cardinality(genres) = 2
    /\ Cardinality(classified_posts) = 2
    /\ \A c \in classified_posts : c.post_id = 1

\* The store after the finished unsave_post(post_id) of user u.
C20_UnsaveAfter(post_id, u, r) ==
    LET mine == {k \in saved_skeets : k.user_id = u /\ k.post_id = post_id}
    IN  IF mine = {}
        THEN r.f.status = "404" /\ r.db = DB
        ELSE /\ r.f.status = "ok"
             /\ Cardinality(mine) = 1
             /\ r.db = [DB EXCEPT !.saved_skeets = saved_skeets \ mine]

\* C20: unsave_post(post_id) by user u deletes the SavedSkeet row of
\* (u, post_id) and nothing else (the Post row, the rows of other users for
\* the post and the other tables stay); without such a row it answers 404
\* and changes nothing.
C20_UnsaveDeletesOnlyTheSave ==
    \A post_id \in 0 .. MaxPosts, u \in Users :
        C20_UnsaveAfter(post_id, u,
            Call(DB, "unsave_post", [post_id |-> post_id, user_id |-> u]))

\* Two users saved post 1 and user 1 unsaved it: the post and the save of
\* user 2 are there.
C20_Witness ==
    /\ calls = 3
    /\ result.op = "unsave_post" /\ result.status = "ok"
    /\ Cardinality(posts) = 1
    /\ saved_skeets = {[id |-> 2, post_id |-> 1, user_id |-> 2, book_id |-> NULL]}

\* C21: a create_book call of user u for (title, author) returns a Book
\* with that title and author and ends with a SavedSkeet row linking u to
\* that Book, whatever the user saved through create_book before.
C21_CreateBookLinksUser ==
    \A t \in Titles, a \in Authors, u \in Users :
        \E r \in {Call(DB, "create_book",
                       [title |-> t, author |-> a, user_id |-> u])} :
            /\ r.f.status = "ok"
            /\ \E b \in r.db.books :
                  /\ b.id = r.f.ret /\ b.title = t /\ b.author = a
                  /\ \E k \in r.db.saved_skeets :
                        k.user_id = u /\ k.book_id = b.id

\* C25: every SavedSkeet row's post_id is the id of an existing Post row.
C25_SavedSkeetPostExists ==
    \A k \in saved_skeets : \E q \in posts : q.id = k.post_id

----------------------------------------------------------------------------
(* Properties of the persistence methods under SpecSave. *)

\* The Genre rows of store d named n.
C16_Named(d, n) == {g \in d.genres : g.name = n}

\* save_genre_to_db (r1) and then save_book_to_db (r2) with the name n.
C16_SameGenre(n, r1, r2) ==
    /\ Cardinality(C16_Named(r1.db, n)) = 1
    /\ r2.db.genres = r1.db.genres
    /\ \A g \in C16_Named(r2.db, n) :
          /\ r1.f.genre_id = g.id
          /\ r2.f.genre_id = g.id
          /\ [post_id |-> r1.f.post_id, genre_id |-> g.id]
                \in r1.db.classified_posts
    /\ C16_Named(DB, n) # {} => r1.db.genres = genres

\* C16: after any sequence of save_genre_to_db and save_book_to_db calls no
\* two Genre rows share a name, and two calls with one genre name use the
\* Genre row with the same id, creating it only when the name is absent.
C16_GenreLookupOrCreate ==
    /\ \A g, h \in genres : g.name = h.name => g.id = h.id
    /\ \A n \in Labels, p \in PostInputs, t \in Titles \cup {<<>>} :
          \E r1 \in {Call(DB, "save_genre_to_db", [self |-> p, genre_name |-> n])} :
             C16_SameGenre(n, r1,
                 Call(r1.db, "save_book_to_db",
                      [book_title |-> t, author |-> FrankHerbert,
                       genre_name |-> n]))

\* save_genre_to_db created a genre that a later save_book_to_db with the
\* same name used for its Book.
C16_Witness ==
    /\ result.op = "save_book_to_db" /\ result.status = "ok"
    /\ Cardinality(genres) = 1
    /\ classified_posts = {[post_id |-> 1, genre_id |-> 1]}
    /\ \E b \in books : b.id = result.ret /\ b.genre_id = 1

\* The same text arriving with every other field different.
C17_Changed(p) ==
    [p EXCEPT !.handle = "other", !.display_name = "Other",
              !.timestamp = "2025-05-05T05:05:05", !.like_count = 6,
              !.uri = "at://9"]

\* The Post table after the finished call r for the incoming post p.
C17_PostsAfter(p, r) ==
    /\ posts \subseteq r.db.posts
    /\ (\E q \in posts : q.text = p.text) => r.db.posts = posts
    /\ Cardinality({q \in r.db.posts : q.text = p.text}) = 1

\* C17: save_genre_to_db and save_skeet_to_db never change or delete a Post
\* row: when a row with the incoming text exists they leave the table as it
\* is, whatever the other incoming fields are, and otherwise they add the
\* one row of that text.
C17_PostNeverUpdated ==
    \A p \in PostInputs \cup {C17_Changed(q) : q \in PostInputs} :
        /\ \A n \in Labels :
              C17_PostsAfter(p,
                  Call(DB, "save_genre_to_db", [self |-> p, genre_name |-> n]))
        /\ \A b \in Ids(books) \cup {NULL} :
              C17_PostsAfter(p,
                  Call(DB, "save_skeet_to_db", [self |-> p, book |-> b]))

\* The post save_genre_to_db created was found by save_skeet_to_db.
C17_Witness ==
    /\ calls = 2
    /\ result.op = "save_skeet_to_db" /\ result.status = "ok"
    /\ Cardinality(posts) = 1
    /\ classified_posts = {[post_id |-> 1, genre_id |-> 1]}
    /\ \E k \in saved_skeets : k.post_id = 1 /\ k.user_id = 1

----------------------------------------------------------------------------
(* Properties of the post endpoints under SpecPost. *)

\* create_post by user u (r1) and again with a post of the same uri (r2).
C19_SameSave(uri, u, r1, r2) ==
    /\ r1.f.status = "ok" /\ r2.f.status = "ok"
    /\ r2.f.ret = r1.f.ret
    /\ r2.db = r1.db
    /\ {q.id : q \in {x \in r2.db.posts : x.uri = uri}} = {r1.f.ret}
    /\ Cardinality({k \in r2.db.saved_skeets :
                       k.user_id = u /\ k.post_id = r1.f.ret}) = 1

\* C19: however often create_post is called with posts of one uri by one
\* user, there is one Post row with that uri and one SavedSkeet row linking
\* the user to it, and every call returns that Post.
C19_CreatePostIdempotent ==
    /\ \A q, x \in posts : q.uri = x.uri => q.id = x.id
    /\ \A p, p2 \in PostInputs, u \in Users :
          p2.uri = p.uri =>
             \E r1 \in {Call(DB, "create_post", [post |-> p, user_id |-> u])} :
                C19_SameSave(p.uri, u, r1,
                    Call(r1.db, "create_post", [post |-> p2, user_id |-> u]))

\* Two create_post calls with one uri: the second found the Post of the
\* first.
C19_Witness ==
    /\ calls = 2
    /\ result = [op |-> "create_post", status |-> "ok", ret |-> 1]
    /\ Cardinality(posts) = 1
    /\ {k.post_id : k \in saved_skeets} = {1}
    /\ {k.user_id : k \in saved_skeets} = Users

\* C22: save_book_to_db with an empty or null title fails and leaves the
\* store as it was: the failing call creates no Book row and no Genre row.
C22_EmptyTitleLeavesStore ==
    \A t \in {<<>>, None}, a \in Authors \cup {None}, n \in Labels :
        \E r \in {Call(DB, "save_book_to_db",
                       [book_title |-> t, author |-> a, genre_name |-> n])} :
            /\ r.f.status = "ValueError"
            /\ r.db = DB

----------------------------------------------------------------------------
(* Properties of classify_and_save_posts under SpecPipe. *)

\* C1: the second run over the same raw posts, with the same answers of
\* the classifier and the extractor, creates no row and changes no row:
\* throughout it, and when it ends, the store is as the first run left it.
C1_RerunIdempotent == run = 2 => DB = first_run

\* The second run has returned over a store with rows in all five tables.
C1_Witness ==
    /\ run = 2 /\ stage = "returned"
    /\ Cardinality(posts) = 2
    /\ genres # {} /\ classified_posts # {}
    /\ books # {} /\ saved_skeets # {}

\* C2: a failure while processing one post does not halt the batch: when
\* the run is over every post of the batch was either persisted or is one
\* whose own processing failed.
C2_BatchResilience ==
    stage \in {"returned", "raised"} =>
        \A j \in DOMAIN log : log[j] \in {"persisted", "error"}

\* C6: for a post whose classification and extraction succeeded, the
\* persist step ends with one SavedSkeet row for (user 1, the post); with a
\* null title it creates no Book and a new row has a null book_id; with a
\* title (the author a string or null) a Book with that title and author
\* exists afterwards and a row that is new or had a null book_id references
\* that Book.
C6_PersistedBranch ==
    stage = "extracted" =>
        LET e == raw_posts[i]
            author == locals.authors[1]
            book_title == locals.book_titles[1]
            o == PersistOutcome(DB, e, locals.predicted_genre, author, book_title)
            pid == SelectPostByText(DB, e.text)
            old == {s \in saved_skeets : s.user_id = 1 /\ s.post_id = pid}
            new == {s \in o.db.saved_skeets : s.user_id = 1 /\ s.post_id = pid}
            fresh == old = {} \/ \E s \in old : s.book_id = NULL
        IN  /\ o.status = "ok"
            /\ pid # NULL
            /\ Cardinality(new) = 1
            /\ book_title = None =>
                  /\ o.db.books = books
                  /\ old = {} => \A n \in new : n.book_id = NULL
            /\ book_title # None =>
                  \E b \in o.db.books :
                      /\ b.title = book_title /\ b.author = author
                      /\ fresh => \A n \in new : n.book_id = b.id

\* C13: within one run a post, identified by its text, is classified,
\* extracted and persisted once: after a raw post was persisted, a later
\* raw post of the batch with the same text is not classified, extracted
\* or persisted again.
C13_PerPostStateMachine ==
    \A j, k \in DOMAIN log :
        (/\ j < k
         /\ raw_posts[j].text = raw_posts[k].text
         /\ log[j] = "persisted") => log[k] = "fetched"

\* A failing question-answering call for the post the loop is at.
C14_ExtractionFails(e) == e.qa_author = ServiceError \/ e.qa_title = ServiceError

\* C14: when a question-answering call fails for a post, the step writes
\* nothing (no Book row, no SavedSkeet row; the Post, Genre and
\* ClassifiedPost rows of this post and every row of the posts before it
\* stay as they were), the Post and ClassifiedPost rows of the post are in
\* the store, and the post is never persisted: the run ends there.
C14_ExtractionAllOrNothing ==
    [][(stage = "classified" /\ C14_ExtractionFails(raw_posts[i])) =>
          /\ tables' = tables
          /\ stage' = "raised"
          /\ log'[i] = "error"
          /\ \E p \in posts :
                /\ p.text = raw_posts[i].text
                /\ \E c \in classified_posts : c.post_id = p.id]_vars

\* The title question failed for the second post, after the first post was
\* persisted with its Book and SavedSkeet.
C14_Witness ==
    /\ run = 1 /\ i = 2 /\ stage = "raised"
    /\ log = <<"persisted", "error">>
    /\ raw_posts[2].qa_title = ServiceError
    /\ raw_posts[1].text # raw_posts[2].text
    /\ Cardinality(posts) = 2 /\ Cardinality(classified_posts) = 2
    /\ Cardinality(books) = 1 /\ Cardinality(saved_skeets) = 1

\* C24: classify_and_save_posts never meets the empty-title ValueError of
\* save_book_to_db: for the pair extract_entities returned, the persist
\* step does not raise it, and a null or empty title takes the book-less
\* save, which writes no Book and leaves the new SavedSkeet without one.
\* The only ValueError of a run is that of a timestamp that does not parse.
C24_NoEmptyTitleError ==
    /\ stage = "extracted" =>
          \E o \in {PersistOutcome(DB, raw_posts[i], locals.predicted_genre,
                                   locals.authors[1], locals.book_titles[1])} :
             /\ o.status # "ValueError"
             /\ (locals.book_titles[1] = None \/ locals.book_titles[1] = <<>>) =>
                   /\ o.status = "ok"
                   /\ o.db.books = books
                   /\ \A k \in o.db.saved_skeets \ saved_skeets :
                         k.book_id = NULL
    /\ (stage = "raised" /\ result.status = "ValueError") =>
          raw_posts[i].timestamp = BadTimestamp

\* The title answer "/dune" was cleaned to "" and the post was saved
\* without a book.
C24_Witness ==
    /\ stage = "persisted" /\ run = 1 /\ i = 1
    /\ raw_posts[1].qa_title = RawSlashDune
    /\ locals.book_titles[1] = <<>>
    /\ books = {}
    /\ saved_skeets = {[id |-> 1, post_id |-> 1, user_id |-> 1, book_id |-> NULL]}

----------------------------------------------------------------------------
(* Properties of interleaved calls under SpecConc. *)

\* C4: no two SavedSkeet rows share one (user_id, post_id) pair, in every
\* state two sessions reach with save_skeet_to_db, create_post and
\* create_book interleaved statement by statement.
C4_SavedSkeetUserPostUnique ==
    \A s, t \in saved_skeets :
        (s.user_id = t.user_id /\ s.post_id = t.post_id) => s.id = t.id

\* Both sessions looked the pair up and found no row; one inserted it and
\* the store rejected the insert of the other.
C4_Witness ==
    \E p, q \in Sessions :
        /\ procs[p].op \in {"save_skeet_to_db", "create_post", "create_book"}
        /\ procs[p].status = "IntegrityError"
        /\ procs[q].op \in {"save_skeet_to_db", "create_post", "create_book"}
        /\ procs[q].status = "ok"
        /\ Cardinality(saved_skeets) = 1

----------------------------------------------------------------------------
(* Properties of extract_entities under SpecClean. *)

\* The title cleaned with the cleaned author: a null author removes nothing.
C11_TitleWithCleanedAuthor(author, book_title) ==
    IF IsFalsy(CleanAuthor(author))
    THEN CleanTitle(<<>>, book_title)
    ELSE CleanTitle(CleanAuthor(author), book_title)

\* C11: the title extract_entities returns is the title cleaned with the
\* cleaned author: when the raw author is a placeholder (cleaned author
\* null) nothing is removed from the title.
C11_RemovalUsesCleanedAuthor ==
    stage = "extracted" =>
        locals.book_titles[1] =
            C11_TitleWithCleanedAuthor(locals.author, locals.book_title)

\* C23: the title extract_entities returns is null or a non-empty string.
C23_TitleNeverEmpty ==
    stage = "extracted" =>
        locals.book_titles[1] = None \/ Len(locals.book_titles[1]) > 0

\* Case-insensitive equality with one of the words.
C12_IsOneOf(raw, words) == \E w \in words : Lower(raw) = Lower(w)

\* A str: a sequence of characters (possibly the empty one).
C12_IsStr(x) ==
    /\ x # None
    /\ \A k \in 1 .. Len(x) :
          \/ IsCased(x[k])
          \/ x[k] \in {" ", "/"}

\* C12: the returned title is null exactly when the raw title is empty or
\* case-insensitively "booksky", "unknown" or "none"; the returned author is
\* null exactly when the raw author is empty or case-insensitively
\* "unknown", "none", "author" or "anonymous"; otherwise the field is a
\* string.
C12_PlaceholderRejection ==
    stage = "extracted" =>
        /\ locals.book_titles[1] = None <=>
              \/ locals.book_title = <<>>
              \/ C12_IsOneOf(locals.book_title, {RawBooksky, RawUnknown, RawNone})
        /\ locals.authors[1] = None <=>
              \/ locals.author = <<>>
              \/ C12_IsOneOf(locals.author,
                             {RawUnknown, RawNone, RawAuthor, RawAnonymous})
        /\ locals.book_titles[1] # None => C12_IsStr(locals.book_titles[1])
        /\ locals.authors[1] # None => C12_IsStr(locals.authors[1])

\* "UNKNOWN" as the title and "ANONYMOUS" as the author both came back null.
C12_Witness ==
    /\ stage = "extracted"
    /\ locals.book_title = RawUNKNOWN /\ locals.book_titles[1] = None
    /\ locals.author = RawAnonymous /\ locals.authors[1] = None

\* C18: when two save_book_to_db executions interleave, the store rejects
\* the second insert of one (title, author) pair, so no two Book rows share
\* the pair.
C18_BookUniqueUnderInterleaving ==
    (\A p \in Sessions : procs[p].op = "save_book_to_db") =>
        \A b, c \in books :
            (b.title = c.title /\ b.author = c.author) => b.id = c.id

=============================================================================
